---- MODULE Spec2Model ----
(***************************************************************************)
(* Model of the Spotlight page (src/app/spotlight/page.tsx): the           *)
(* per-period summary fetcher (fetchSummaries and the effect that triggers *)
(* it) and the per-card narration cache and playback handlers.             *)
(*                                                                         *)
(* The page is one React component.  JavaScript runs one task at a time,   *)
(* so an action is the synchronous code between two suspension points      *)
(* (await, timer, DOM event).  React state (useState) is modelled by its   *)
(* logical value: the last rendered value with every queued update         *)
(* applied, in order.                                                      *)
(***************************************************************************)
EXTENDS Integers, Sequences, FiniteSets, TLC

(***************************************************************************)
(* Bounds of the model.                                                    *)
(***************************************************************************)
\* invocations of fetchSummaries started in one page lifetime
MaxInvocations == 2
\* last calendar day the clock reaches
MaxDay == 5
\* text-to-speech requests outstanding at once
MaxTts == 2
\* Audio elements that audioRefs no longer holds and that still fire events
MaxDetached == 1
\* timers of handleSeek pending at once
MaxSeekTimers == 1
MaxLoads == 2

(***************************************************************************)
(* Periods.  A period key stands for the string built at page.tsx:302      *)
(* from the group's start date, end date and the time range.  Period p     *)
(* covers the two calendar days 2p-1 and 2p.                               *)
(***************************************************************************)
Periods == {1, 2}

PeriodStartDay(p) == 2 * p - 1

PeriodEndDay(p) == 2 * p

\* setHours(0, 0, 0, 0) and setHours(23, 59, 59, 999) of a calendar day, as
\* instants: two per day, in order.
StartOfDay(d) == 2 * d

EndOfDay(d) == 2 * d + 1

\* groupedMessages, newest period first (sortOrder 'desc', page.tsx:200-203)
groups == <<2, 1>>

NoEntry == [present |-> FALSE, summary |-> "", cached |-> FALSE, loading |-> FALSE]

Entry(s, c, l) == [present |-> TRUE, summary |-> s, cached |-> c, loading |-> l]

\* texts a PeriodSummary can hold: none, a backend summary, the two
\* "Error: ..." diagnostics of page.tsx:446
SummaryTexts == {"", "sum", "errNetwork", "errTimeout"}

ErrorTexts == {"errNetwork", "errTimeout"}

\* how the request of page.tsx:377 can end
ResponseKinds == {"ok", "okEmpty", "status", "network", "timeout"}

VARIABLES
    today,          \* the calendar day of new Date()
    summaries,      \* useState summaries: period key -> PeriodSummary
    invs,           \* the invocations of fetchSummaries, by slot
    playingStates,  \* useState playingStates: key -> session state
    audioLoading,   \* useState audioLoading: key -> boolean
    isSeeking,      \* useState isSeeking: a key or 0 (null)
    seekTimers,     \* pending setTimeout(() => setIsSeeking(null), 100)
    audioCache,     \* useState audioCache: key -> {dataUrl, duration}
    store,          \* localStorage item 'audioCache'
    audioRefs,      \* audioRefs.current: key -> Audio element
    detached,       \* elements audioRefs dropped that still fire events
    tts,            \* outstanding text-to-speech requests
    sought,         \* history: the position the seek window in force was opened at
    synthesized,    \* history: keys whose text-to-speech request was answered ok
    failed,         \* history: periods of which a summary request has failed
    narrated,       \* history: per key, the text of its latest synthesis request
    timeRange,      \* the granularity the tabs show: "week" or "month"
    grouped,        \* granularity groupedMessages was computed under ("none": [])
    loading,        \* the page's loading flag of loadMessages
    loads,          \* loadMessages calls in flight: the timeRange each captured
    calls,          \* scheduled fetchSummaries calls: <<grouping, timeRange>>
    keyed           \* <<grouping of the bounds, granularity>> of the requests issued

viewVars == <<timeRange, grouped, loading, loads, calls, keyed>>

sumVars == <<today, summaries, invs, failed, viewVars>>

audioVars == <<playingStates, audioLoading, isSeeking, seekTimers, audioCache,
               store, audioRefs, detached, tts, sought>>

vars == <<today, summaries, invs, playingStates, audioLoading, isSeeking,
          seekTimers, audioCache, store, audioRefs, detached, tts, sought,
          synthesized, failed, narrated, timeRange, grouped, loading, loads,
          calls, keyed>>

(***************************************************************************)
(* PeriodSummarizer: fetchSummaries                                        *)
(***************************************************************************)
\* isCurrentPeriod with the period's last day left out ('>' for '>=' at
\* page.tsx:310)
isCurrentPeriodEndExclusive(p) ==
    StartOfDay(PeriodStartDay(p)) <= EndOfDay(today)
        /\ StartOfDay(PeriodEndDay(p)) > StartOfDay(today)

\* page.tsx:306-310
isCurrentPeriod(p) ==
    LET todayStart == StartOfDay(today)
        todayEnd == EndOfDay(today)
        startDate == StartOfDay(PeriodStartDay(p))
        endDate == EndOfDay(PeriodEndDay(p))
    IN  startDate <= todayEnd /\ endDate >= todayStart

\* the updater of page.tsx:314-324
SkipCurrentUpdater(prev, p) ==
    LET existing == prev[p]
    IN  IF existing.present /\ ~existing.loading
        THEN prev
        ELSE [prev EXCEPT ![p] = Entry(existing.summary, existing.cached, FALSE)]

\* the test of page.tsx:335
AlreadyExists(existing) ==
    existing.present /\ existing.summary # "" /\ ~existing.loading

\* the updater of page.tsx:333-348
MarkLoadingUpdater(prev, p) ==
    LET existing == prev[p]
    IN  IF AlreadyExists(existing)
        THEN prev
        ELSE [prev EXCEPT ![p] = Entry(existing.summary, existing.cached, TRUE)]

(***************************************************************************)
(* The for loop of page.tsx:301-453 from group i up to its next await.     *)
(* `dirty` says whether the component has an update queued: React runs the *)
(* updater passed to setSummaries inside the call only when none is        *)
(* queued, and otherwise at the next render, after `if (!shouldFetch)` has *)
(* already read the flag the updater was to clear.                         *)
(***************************************************************************)
RECURSIVE RunLoop(_, _, _)
RunLoop(i, sums, dirty) ==
    IF i > Len(groups)
    THEN [sums |-> sums, i |-> i, pc |-> "done"]
    ELSE LET p == groups[i]
         IN  IF isCurrentPeriod(p)
             THEN LET next == SkipCurrentUpdater(sums, p)
                  IN  RunLoop(i + 1, next, dirty \/ next # sums)
             ELSE LET next == MarkLoadingUpdater(sums, p)
                      shouldFetch == ~(~dirty /\ AlreadyExists(sums[p]))
                  IN  IF shouldFetch
                      THEN [sums |-> next, i |-> i, pc |-> "fetch"]
                      ELSE RunLoop(i + 1, next, dirty)

\* page.tsx:462-466
needsSummary ==
    \E i \in 1..Len(groups) :
        LET existing == summaries[groups[i]]
        IN  ~existing.present \/ (existing.summary = "" /\ ~existing.loading)

\* The effect of page.tsx:457-479, run when groupedMessages, userId or
\* timeRange changed: it starts fetchSummaries through setTimeout(..., 0);
\* the invocation then awaits the health check of page.tsx:287.
SummaryEffect ==
    /\ needsSummary
    /\ \E n \in 1..MaxInvocations :
        /\ invs[n].pc = "idle"
        /\ \A m \in 1..(n - 1) : invs[m].pc # "idle"
        /\ invs' = [invs EXCEPT ![n] = [pc |-> "health", i |-> 0]]
    /\ UNCHANGED <<today, summaries, audioVars, viewVars, synthesized, failed, narrated>>

\* The health check of page.tsx:286-299 has settled (either way) and the
\* loop runs to its first request.
HealthCheckSettled(n) ==
    /\ invs[n].pc = "health"
    /\ \E dirty \in BOOLEAN :
        LET r == RunLoop(1, summaries, dirty)
        IN  /\ summaries' = r.sums
            /\ invs' = [invs EXCEPT ![n] = [pc |-> r.pc, i |-> r.i]]
    /\ UNCHANGED <<today, audioVars, viewVars, synthesized, failed, narrated>>

\* what page.tsx:412-451 stores for a request that ended as `kind`
SummaryResult(kind, cached) ==
    CASE kind = "ok" -> Entry("sum", cached, FALSE)
      [] kind = "okEmpty" -> Entry("", cached, FALSE)
      [] kind = "status" -> Entry("", FALSE, FALSE)
      [] kind = "network" -> Entry("errNetwork", FALSE, FALSE)
      [] kind = "timeout" -> Entry("errTimeout", FALSE, FALSE)

\* The request of page.tsx:377 is answered: fetch resolves with a response,
\* clearTimeout(timeoutId) at page.tsx:392 drops the 60 s abort, and the
\* invocation awaits the body (response.json() at 405, response.text() at
\* 422).
ResponseHeaders(n) ==
    /\ invs[n].pc = "fetch"
    /\ invs' = [invs EXCEPT ![n].pc = "body"]
    /\ UNCHANGED <<today, summaries, audioVars, viewVars, synthesized, failed, narrated>>

\* SummaryResponseOf with the try/catch around the whole loop: a failure ends
\* the invocation
SummaryResponseAborts(n, kind, cached) ==
    /\ invs[n].pc = IF kind \in {"network", "timeout"} THEN "fetch" ELSE "body"
    /\ (kind \notin {"ok", "okEmpty"} => ~cached)
    /\ LET p == groups[invs[n].i]
           stored == [summaries EXCEPT ![p] = SummaryResult(kind, cached)]
           r == IF kind \in {"ok", "okEmpty"}
                THEN RunLoop(invs[n].i + 1, stored, TRUE)
                ELSE [sums |-> stored, i |-> Len(groups) + 1, pc |-> "done"]
       IN  /\ summaries' = r.sums
           /\ invs' = [invs EXCEPT ![n] = [pc |-> r.pc, i |-> r.i]]
    /\ failed' = IF kind \in {"ok", "okEmpty"} THEN failed
                 ELSE failed \cup {groups[invs[n].i]}
    /\ UNCHANGED <<today, audioVars, viewVars, synthesized, narrated>>

\* The request for group invs[n].i ends as `kind`: the body of a response
\* has been read, or fetch rejected (network failure, abort after 60 s).
\* The entry is replaced and the loop goes on with the next group.
SummaryResponseOf(n, kind, cached) ==
    /\ invs[n].pc = IF kind \in {"network", "timeout"} THEN "fetch" ELSE "body"
    /\ (kind \notin {"ok", "okEmpty"} => ~cached)
    /\ LET p == groups[invs[n].i]
           stored == [summaries EXCEPT ![p] = SummaryResult(kind, cached)]
           r == RunLoop(invs[n].i + 1, stored, TRUE)
       IN  /\ summaries' = r.sums
           /\ invs' = [invs EXCEPT ![n] = [pc |-> r.pc, i |-> r.i]]
    /\ failed' = IF kind \in {"ok", "okEmpty"} THEN failed
                 ELSE failed \cup {groups[invs[n].i]}
    /\ UNCHANGED <<today, audioVars, viewVars, synthesized, narrated>>

SummaryResponse(n) ==
    \E kind \in ResponseKinds, cached \in BOOLEAN : SummaryResponseOf(n, kind, cached)

\* midnight passes
AdvanceDay ==
    /\ today < MaxDay
    /\ today' = today + 1
    /\ UNCHANGED <<summaries, invs, audioVars, viewVars, synthesized, failed, narrated>>

\* a summary request for period p is outstanding
Outstanding(p) ==
    {n \in 1..MaxInvocations : invs[n].pc \in {"fetch", "body"} /\ groups[invs[n].i] = p}



(***************************************************************************)
(* NarrationSynthesizer and PlaybackController                             *)
(***************************************************************************)
\* audio payloads the backend can answer with (base64 data URLs)
Payloads == {"a"}

\* audio.duration of an element decoding `src`, in ticks of playback time
AudioDuration(src) == IF src = "a" THEN 2 ELSE 4

\* positions of the progress bar a seek gesture picks
SeekPercents == {0, 50, 100}

NoState == [present |-> FALSE, isPlaying |-> FALSE, isPaused |-> FALSE,
            progress |-> 0, duration |-> 0]

NoTrack == [present |-> FALSE, dataUrl |-> "", duration |-> 0]

Track(url, d) == [present |-> TRUE, dataUrl |-> url, duration |-> d]

\* updatePlayingState starting from an empty Map instead of new Map(prev)
ReplacePlayingStates(prev, periodKey, updates) ==
    LET Field(f) == IF f \in DOMAIN updates THEN updates[f] ELSE NoState[f]
    IN  [k \in DOMAIN prev |->
            IF k = periodKey
            THEN [present |-> TRUE, isPlaying |-> Field("isPlaying"),
                  isPaused |-> Field("isPaused"), progress |-> Field("progress"),
                  duration |-> Field("duration")]
            ELSE NoState]

\* page.tsx:520-527; `updates` is the Partial<...> record
updatePlayingState(prev, periodKey, updates) ==
    LET current == prev[periodKey]
        Field(f) == IF f \in DOMAIN updates THEN updates[f] ELSE current[f]
    IN  [prev EXCEPT ![periodKey] =
            [present |-> TRUE, isPlaying |-> Field("isPlaying"),
             isPaused |-> Field("isPaused"), progress |-> Field("progress"),
             duration |-> Field("duration")]]

\* a delete that leaves the map as it was
DeleteLoadingKept(prev, periodKey) == prev

\* newMap.delete(periodKey) on audioLoading
DeleteLoading(prev, periodKey) == [prev EXCEPT ![periodKey] = FALSE]

\* JSON.stringify(cacheData) of page.tsx:679-683: one member per cached key
JSONStringify(cache) ==
    {[key |-> k, dataUrl |-> cache[k].dataUrl, duration |-> cache[k].duration] :
        k \in {q \in Periods : cache[q].present}}

\* a parse that does not read the duration of an entry back
JSONParseNoDuration(text) ==
    [k \in Periods |->
        IF \E e \in text : e.key = k
        THEN LET e == CHOOSE e \in text : e.key = k
             IN  Track(e.dataUrl, 0)
        ELSE NoTrack]

\* JSON.parse and Object.entries(...).forEach of page.tsx:75-79
JSONParse(text) ==
    [k \in Periods |->
        IF \E e \in text : e.key = k
        THEN LET e == CHOOSE e \in text : e.key = k
             IN  Track(e.dataUrl, e.duration)
        ELSE NoTrack]

NoItem == [item |-> FALSE, text |-> {}]

\* a mount that does not read localStorage
LoadEmptyCache(st) == [k \in Periods |-> NoTrack]

\* the effect of page.tsx:71-86: the cache a mounting page builds
LoadAudioCache(st) ==
    IF st.item THEN JSONParse(st.text) ELSE [k \in Periods |-> NoTrack]

(***************************************************************************)
(* Audio elements.  `suppress` is the value of `isSeeking === periodKey`   *)
(* the element's listeners closed over: handlePlayAudio reads isSeeking    *)
(* from the render it was made in.  `fresh` tells the listeners of         *)
(* page.tsx:661-715 from those of page.tsx:563-599.                        *)
(***************************************************************************)
NoAudio ==
    [present |-> FALSE, key |-> 0, src |-> "", fresh |-> FALSE, phase |-> "none",
     paused |-> TRUE, currentTime |-> 0, suppress |-> FALSE,
     cachedDuration |-> 0]

\* new Audio(src) followed by audio.play()
NewAudio(k, src, fresh, suppress, cachedDuration) ==
    [present |-> TRUE, key |-> k, src |-> src, fresh |-> fresh, phase |-> "new",
     paused |-> FALSE, currentTime |-> 0, suppress |-> suppress,
     cachedDuration |-> cachedDuration]

\* an element that fires no further event unless a handler plays it
Inert(a) ==
    \/ a.phase = "error"
    \/ a.phase = "ready" /\ a.paused

RemoveAt(seq, i) == SubSeq(seq, 1, i - 1) \o SubSeq(seq, i + 1, Len(seq))

\* the element audioRefs holds for a key, or one it dropped
Handles ==
    {<<"ref", k>> : k \in {q \in Periods : audioRefs[q].present}}
        \cup {<<"det", i>> : i \in 1..Len(detached)}

Element(h) == IF h[1] = "ref" THEN audioRefs[h[2]] ELSE detached[h[2]]

\* element h becomes a; a dropped element that has gone inert is forgotten
SetElement(h, a) ==
    IF h[1] = "ref"
    THEN /\ audioRefs' = [audioRefs EXCEPT ![h[2]] = a]
         /\ UNCHANGED detached
    ELSE /\ detached' = IF Inert(a) THEN RemoveAt(detached, h[2])
                        ELSE [detached EXCEPT ![h[2]] = a]
         /\ UNCHANGED audioRefs

\* audioRefs drops element old, which goes on firing events unless inert
Dropped(old) ==
    IF old.present /\ ~Inert(old) THEN Append(detached, old) ELSE detached

CanDrop(old) == (old.present /\ ~Inert(old)) => Len(detached) < MaxDetached

\* audioRefs.current.set(periodKey, audio), page.tsx:560 and 658
SetAudioRef(k, a) ==
    /\ CanDrop(audioRefs[k])
    /\ audioRefs' = [audioRefs EXCEPT ![k] = a]
    /\ detached' = Dropped(audioRefs[k])

RECURSIVE SumOver(_, _)
SumOver(f, S) ==
    IF S = {} THEN 0
    ELSE LET x == CHOOSE x \in S : TRUE IN f[x] + SumOver(f, S \ {x})

\* text-to-speech requests outstanding for key k
TtsOutstanding(k) == tts[<<k, TRUE>>] + tts[<<k, FALSE>>]

\* the summary card's button is rendered (page.tsx:1015)
ButtonShown(k) ==
    summaries[k].present /\ summaries[k].summary # "" /\ ~summaries[k].loading

\* a handlePlayAudio that never finds the key in audioCache
CacheMiss(k) == FALSE

\* page.tsx:548-549
CacheHit(k) == audioCache[k].present /\ audioCache[k].dataUrl # ""

\* page.tsx:541
CanResumeInPlay(k) ==
    /\ audioRefs[k].present
    /\ playingStates[k].isPaused
    /\ ~playingStates[k].isPlaying

\* audio.play() on an element: an element that has ended starts over
PlayElement(a) ==
    [a EXCEPT !.paused = FALSE,
              !.currentTime = IF a.phase = "ready" /\ a.currentTime = AudioDuration(a.src)
                              THEN 0 ELSE a.currentTime]

\* audio.pause()
PauseElement(a) == [a EXCEPT !.paused = TRUE]

\* handlePlayAudio, page.tsx:530-646, up to its await
handlePlayAudio(k) ==
    IF CanResumeInPlay(k)
    THEN /\ audioRefs' = [audioRefs EXCEPT ![k] = PlayElement(@)]
         /\ playingStates' = updatePlayingState(playingStates, k,
                                 [isPlaying |-> TRUE, isPaused |-> FALSE])
         /\ UNCHANGED <<audioLoading, isSeeking, seekTimers, audioCache, store,
                        detached, tts, sought>>
    ELSE IF CacheHit(k)
    THEN /\ audioLoading' = [audioLoading EXCEPT ![k] = TRUE]
         /\ SetAudioRef(k, NewAudio(k, audioCache[k].dataUrl, FALSE,
                                    isSeeking = k, audioCache[k].duration))
         /\ UNCHANGED <<playingStates, isSeeking, seekTimers, audioCache, store,
                        tts, sought>>
    ELSE /\ SumOver(tts, DOMAIN tts) < MaxTts
         /\ audioLoading' = [audioLoading EXCEPT ![k] = TRUE]
         /\ playingStates' = updatePlayingState(playingStates, k,
                                 [isPlaying |-> TRUE, isPaused |-> FALSE])
         /\ tts' = [tts EXCEPT ![<<k, isSeeking = k>>] = @ + 1]
         /\ UNCHANGED <<isSeeking, seekTimers, audioCache, store, audioRefs,
                        detached, sought>>

\* a pause that writes only isPaused
PauseKeepsPlaying(k) ==
    IF audioRefs[k].present /\ ~audioRefs[k].paused
    THEN /\ audioRefs' = [audioRefs EXCEPT ![k] = PauseElement(@)]
         /\ playingStates' = updatePlayingState(playingStates, k,
                                 [isPaused |-> TRUE])
         /\ UNCHANGED <<audioLoading, isSeeking, seekTimers, audioCache, store,
                        detached, tts, sought>>
    ELSE UNCHANGED audioVars

\* page.tsx:737-743
handlePauseAudio(k) ==
    IF audioRefs[k].present /\ ~audioRefs[k].paused
    THEN /\ audioRefs' = [audioRefs EXCEPT ![k] = PauseElement(@)]
         /\ playingStates' = updatePlayingState(playingStates, k,
                                 [isPlaying |-> FALSE, isPaused |-> TRUE])
         /\ UNCHANGED <<audioLoading, isSeeking, seekTimers, audioCache, store,
                        detached, tts, sought>>
    ELSE UNCHANGED audioVars

\* a resume that starts the element over, as the cache branch of
\* handlePlayAudio starts a new one
ResumeFromStart(k) ==
    IF audioRefs[k].present /\ audioRefs[k].paused
    THEN /\ audioRefs' = [audioRefs EXCEPT ![k] = [@ EXCEPT !.paused = FALSE,
                                                            !.currentTime = 0]]
         /\ playingStates' = updatePlayingState(playingStates, k,
                                 [isPlaying |-> TRUE, isPaused |-> FALSE,
                                  progress |-> 0])
         /\ UNCHANGED <<audioLoading, isSeeking, seekTimers, audioCache, store,
                        detached, tts, sought>>
    ELSE UNCHANGED audioVars

\* page.tsx:745-751
handleResumeAudio(k) ==
    IF audioRefs[k].present /\ audioRefs[k].paused
    THEN /\ audioRefs' = [audioRefs EXCEPT ![k] = PlayElement(@)]
         /\ playingStates' = updatePlayingState(playingStates, k,
                                 [isPlaying |-> TRUE, isPaused |-> FALSE])
         /\ UNCHANGED <<audioLoading, isSeeking, seekTimers, audioCache, store,
                        detached, tts, sought>>
    ELSE UNCHANGED audioVars

\* The onClick of the summary card's button, page.tsx:1025-1049 (the player
\* bar's button, page.tsx:1110-1135, is the same dispatch behind one more
\* guard).
ClickPause(k) ==
    /\ ButtonShown(k)
    /\ playingStates[k].isPlaying /\ ~playingStates[k].isPaused
    /\ handlePauseAudio(k)
    /\ UNCHANGED <<sumVars, synthesized, narrated>>

ClickResume(k) ==
    /\ ButtonShown(k)
    /\ ~(playingStates[k].isPlaying /\ ~playingStates[k].isPaused)
    /\ playingStates[k].isPaused
    /\ handleResumeAudio(k)
    /\ UNCHANGED <<sumVars, synthesized, narrated>>

ClickPlay(k) ==
    /\ ButtonShown(k)
    /\ ~(playingStates[k].isPlaying /\ ~playingStates[k].isPaused)
    /\ ~playingStates[k].isPaused
    /\ handlePlayAudio(k)
    /\ narrated' = IF CanResumeInPlay(k) \/ CacheHit(k) THEN narrated
                   ELSE [narrated EXCEPT ![k] = summaries[k].summary]
    /\ UNCHANGED <<sumVars, synthesized>>

\* The request of page.tsx:640 is answered with response.ok and a payload;
\* reader.onloadend (page.tsx:653-715) makes the element and plays it.
TtsResponseWith(k, sup, payloads) ==
    /\ tts[<<k, sup>>] > 0
    /\ \E payload \in payloads :
        SetAudioRef(k, NewAudio(k, payload, TRUE, sup, 0))
    /\ tts' = [tts EXCEPT ![<<k, sup>>] = @ - 1]
    /\ UNCHANGED <<playingStates, audioLoading, isSeeking, seekTimers,
                   audioCache, store, sought>>
    /\ synthesized' = synthesized \cup {k}
    /\ UNCHANGED <<sumVars, narrated>>

TtsResponseOk(k, sup) == TtsResponseWith(k, sup, Payloads)

\* payloads of two lengths: AudioDuration tells them apart
LongPayloads == {"a", "b"}

\* a failure branch that leaves the flags of page.tsx:621 as they are
TtsFailedStatesKept(prev, k) == prev

\* the state page.tsx:717-734 leaves: a response that is not ok, or a
\* request that threw
TtsFailedStates(prev, k) ==
    updatePlayingState(prev, k, [isPlaying |-> FALSE, isPaused |-> FALSE])

TtsFailure(k, sup) ==
    /\ tts[<<k, sup>>] > 0
    /\ tts' = [tts EXCEPT ![<<k, sup>>] = @ - 1]
    /\ playingStates' = TtsFailedStates(playingStates, k)
    /\ audioLoading' = DeleteLoading(audioLoading, k)
    /\ UNCHANGED <<isSeeking, seekTimers, audioCache, store, audioRefs,
                   detached, sought>>
    /\ UNCHANGED <<sumVars, synthesized, narrated>>

\* a setItem of the entry just made alone, not of the whole of newCache
StoreWriteNewest(newCache) ==
    LET present == {q \in Periods : newCache[q].present}
        newest == CHOOSE q \in present : \A r \in present : r <= q
    IN  [item |-> TRUE,
         text |-> {e \in JSONStringify(newCache) : e.key = newest}]

\* what localStorage holds after the setItem of page.tsx:683 succeeded
StoreWrite(newCache) == [item |-> TRUE, text |-> JSONStringify(newCache)]

\* the 'loadedmetadata' listeners: page.tsx:563-577 (an element made from
\* the cache) and page.tsx:661-691 (a synthesized one; setItem may throw)
LoadedMetadata(h) ==
    LET a == Element(h)
        k == a.key
    IN  /\ a.phase = "new"
        /\ SetElement(h, [a EXCEPT !.phase = "ready"])
        /\ audioLoading' = DeleteLoading(audioLoading, k)
        /\ IF a.fresh
           THEN LET duration == AudioDuration(a.src)
                    newCache == [audioCache EXCEPT ![k] = Track(a.src, duration)]
                IN  /\ playingStates' = updatePlayingState(playingStates, k,
                                            [duration |-> duration])
                    /\ audioCache' = newCache
                    /\ store' \in {StoreWrite(newCache), store}
           ELSE /\ playingStates' = updatePlayingState(playingStates, k,
                                        [isPlaying |-> TRUE, isPaused |-> FALSE,
                                         duration |-> a.cachedDuration,
                                         progress |-> 0])
                /\ UNCHANGED <<audioCache, store>>
        /\ UNCHANGED <<isSeeking, seekTimers, tts, sought>>
        /\ UNCHANGED <<sumVars, synthesized, narrated>>

\* the progress a 'timeupdate' listener computes, page.tsx:582 and 695
Progress(currentTime, duration) == (currentTime * 100) \div duration

\* the 'timeupdate' listeners, page.tsx:580-585 and 693-698, run on element a
TimeupdateListener(prev, a) ==
    IF ~a.suppress /\ a.phase = "ready"
    THEN updatePlayingState(prev, a.key,
             [progress |-> Progress(a.currentTime, AudioDuration(a.src))])
    ELSE prev

\* playback of a playing element advances by one tick and fires 'timeupdate'
Tick(h) ==
    LET a == Element(h)
        b == [a EXCEPT !.currentTime = @ + 1]
    IN  /\ a.phase = "ready" /\ ~a.paused
        /\ a.currentTime < AudioDuration(a.src)
        /\ SetElement(h, b)
        /\ playingStates' = TimeupdateListener(playingStates, b)
        /\ UNCHANGED <<audioLoading, isSeeking, seekTimers, audioCache, store,
                       tts, sought>>
        /\ UNCHANGED <<sumVars, synthesized, narrated>>

\* a playing element fires 'timeupdate' at the position it is at
TimeUpdate(h) ==
    LET a == Element(h)
    IN  /\ a.phase = "ready" /\ ~a.paused
        /\ UNCHANGED <<audioRefs, detached>>
        /\ playingStates' = TimeupdateListener(playingStates, a)
        /\ UNCHANGED <<audioLoading, isSeeking, seekTimers, audioCache, store,
                       tts, sought>>
        /\ UNCHANGED <<sumVars, synthesized, narrated>>

\* playback reaches the end: the element pauses and fires 'ended'
\* (listeners of page.tsx:587-589 and 700-702)
Ended(h) ==
    LET a == Element(h)
    IN  /\ a.phase = "ready" /\ ~a.paused
        /\ a.currentTime = AudioDuration(a.src)
        /\ SetElement(h, [a EXCEPT !.paused = TRUE])
        /\ playingStates' = updatePlayingState(playingStates, a.key,
                                [isPlaying |-> FALSE, isPaused |-> FALSE,
                                 progress |-> 0])
        /\ UNCHANGED <<audioLoading, isSeeking, seekTimers, audioCache, store,
                       tts, sought>>
        /\ UNCHANGED <<sumVars, synthesized, narrated>>

\* the element cannot decode its source and fires 'error'
\* (listeners of page.tsx:591-599 and 704-712)
AudioError(h) ==
    LET a == Element(h)
    IN  /\ a.phase \in {"new", "ready"}
        /\ SetElement(h, [a EXCEPT !.phase = "error"])
        /\ playingStates' = updatePlayingState(playingStates, a.key,
                                [isPlaying |-> FALSE, isPaused |-> FALSE,
                                 progress |-> 0])
        /\ audioLoading' = DeleteLoading(audioLoading, a.key)
        /\ UNCHANGED <<isSeeking, seekTimers, audioCache, store, tts, sought>>
        /\ UNCHANGED <<sumVars, synthesized, narrated>>

\* the player bar is rendered and takes seek gestures (page.tsx:1099 and
\* the !isLoading guards of page.tsx:1196-1202)
BarShown(k) ==
    /\ ButtonShown(k)
    /\ playingStates[k].isPlaying \/ playingStates[k].isPaused \/ audioLoading[k]
    /\ ~audioLoading[k]

\* page.tsx:771-773: handleSeek and handleMouseMove go on
HasAudioAndDuration(k) == audioRefs[k].present /\ playingStates[k].duration # 0

\* page.tsx:780
SeekTime(percentage, duration) == (percentage * duration) \div 100

\* audio.currentTime = newTime: the position is kept within the media, and
\* an element in error has none
SetCurrentTime(a, newTime) ==
    IF a.phase = "error" THEN a
    ELSE [a EXCEPT !.currentTime = IF newTime > AudioDuration(a.src)
                                   THEN AudioDuration(a.src) ELSE newTime]

\* page.tsx:779-782, shared by handleSeek and handleMouseMove
SeekTo(k, percentage) ==
    /\ audioRefs' = [audioRefs EXCEPT ![k] =
                        SetCurrentTime(@, SeekTime(percentage, playingStates[k].duration))]
    /\ playingStates' = updatePlayingState(playingStates, k,
                            [progress |-> percentage])

\* handleSeek, page.tsx:770-785, past its early return
handleSeek(k, percentage) ==
    /\ isSeeking' = k
    /\ sought' = percentage
    /\ SeekTo(k, percentage)
    /\ seekTimers' = seekTimers + 1
    /\ UNCHANGED <<audioLoading, audioCache, store, detached, tts>>

\* The bar's onMouseDown, page.tsx:1197-1201: setIsSeeking, then handleSeek.
\* The onClick that follows the gesture (page.tsx:1196) is handleSeek again
\* with the same position.
MouseDown(k, percentage) ==
    /\ BarShown(k)
    /\ seekTimers < MaxSeekTimers
    /\ IF HasAudioAndDuration(k)
       THEN handleSeek(k, percentage)
       ELSE /\ isSeeking' = k
            /\ sought' = 0
            /\ UNCHANGED <<playingStates, audioLoading, seekTimers, audioCache,
                           store, audioRefs, detached, tts, sought>>
    /\ UNCHANGED <<sumVars, synthesized, narrated>>

\* handleMouseMove, page.tsx:787-800, from the bar's onMouseMove
handleMouseMove(k, percentage) ==
    /\ BarShown(k)
    /\ isSeeking = k
    /\ HasAudioAndDuration(k)
    /\ SeekTo(k, percentage)
    /\ sought' = percentage
    /\ UNCHANGED <<audioLoading, isSeeking, seekTimers, audioCache, store,
                   detached, tts>>
    /\ UNCHANGED <<sumVars, synthesized, narrated>>

\* onMouseUp and onMouseLeave, page.tsx:1203-1204
MouseUp ==
    /\ isSeeking # 0
    /\ isSeeking' = 0
    /\ sought' = 0
    /\ UNCHANGED <<playingStates, audioLoading, seekTimers, audioCache, store,
                   audioRefs, detached, tts>>
    /\ UNCHANGED <<sumVars, synthesized, narrated>>

\* the timer of page.tsx:784 fires
SeekTimeout ==
    /\ seekTimers > 0
    /\ seekTimers' = seekTimers - 1
    /\ isSeeking' = 0
    /\ sought' = 0
    /\ UNCHANGED <<playingStates, audioLoading, audioCache, store, audioRefs,
                   detached, tts>>
    /\ UNCHANGED <<sumVars, synthesized, narrated>>

\* handleStopAudio, page.tsx:753-768
handleStopAudio(k) ==
    LET stopped == [SetCurrentTime(audioRefs[k], 0) EXCEPT !.paused = TRUE]
    IN  /\ IF audioRefs[k].present
           THEN /\ CanDrop(stopped)
                /\ audioRefs' = [audioRefs EXCEPT ![k] = NoAudio]
                /\ detached' = Dropped(stopped)
           ELSE UNCHANGED <<audioRefs, detached>>
        /\ playingStates' = updatePlayingState(playingStates, k,
                                [isPlaying |-> FALSE, isPaused |-> FALSE,
                                 progress |-> 0])
        /\ UNCHANGED <<audioLoading, isSeeking, seekTimers, audioCache, store,
                       tts, sought>>
        /\ UNCHANGED <<sumVars, synthesized, narrated>>

NoTts == [r \in Periods \X BOOLEAN |-> 0]

\* The page is loaded again.  Every useState and useRef starts over, the
\* callbacks of the old page are gone, and the effect of page.tsx:71-86
\* reads the cache back.  The summaries are fetched anew before any card
\* has a button; the step ends when they are back.
Reload ==
    /\ playingStates' = [k \in Periods |-> NoState]
    /\ audioLoading' = [k \in Periods |-> FALSE]
    /\ isSeeking' = 0
    /\ seekTimers' = 0
    /\ audioCache' = LoadAudioCache(store)
    /\ audioRefs' = [k \in Periods |-> NoAudio]
    /\ detached' = <<>>
    /\ tts' = NoTts
    /\ sought' = 0
    /\ UNCHANGED store
    /\ UNCHANGED <<sumVars, synthesized, narrated>>

InitAudioVars ==
    /\ playingStates = [k \in Periods |-> NoState]
    /\ audioLoading = [k \in Periods |-> FALSE]
    /\ isSeeking = 0
    /\ seekTimers = 0
    /\ store = NoItem
    /\ audioCache = LoadAudioCache(NoItem)
    /\ audioRefs = [k \in Periods |-> NoAudio]
    /\ detached = <<>>
    /\ tts = NoTts
    /\ sought = 0
    /\ synthesized = {}
    /\ narrated = [k \in Periods |-> ""]

(***************************************************************************)
(* The week/month tabs, loadMessages and the keys of the summary requests  *)
(***************************************************************************)
Granularities == {"week", "month"}

\* the summary trigger effect of page.tsx:457-479 for groupedMessages
\* computed under g while the tabs show t: it schedules
\* fetchSummaries(groupedMessages, userId), whose closure holds t, unless
\* there is nothing grouped or the keys of these groups have their entries
TriggerEffect(g, t) ==
    IF g = "none" \/ <<g, t>> \in keyed THEN calls ELSE calls \cup {<<g, t>>}

\* The tabs' onValueChange (page.tsx:965) sets timeRange; the render that
\* follows runs the loadMessages effect (page.tsx:137-229), which sets
\* loading and starts loading under the new value, and the summary trigger
\* effect with the groups the page still holds.
setTimeRange(v) ==
    /\ ~loading /\ grouped # "none"
    /\ v # timeRange
    /\ Len(loads) < MaxLoads
    /\ timeRange' = v
    /\ loading' = TRUE
    /\ loads' = Append(loads, v)
    /\ calls' = TriggerEffect(grouped, v)
    /\ UNCHANGED <<grouped, keyed>>
    /\ UNCHANGED <<today, summaries, invs, failed, audioVars, synthesized, narrated>>

\* The sort button of the header changes sortOrder: the loadMessages effect
\* runs again under the same timeRange (page.tsx:229).
setSortOrder ==
    /\ grouped # "none"
    /\ Len(loads) < MaxLoads
    /\ loading' = TRUE
    /\ loads' = Append(loads, timeRange)
    /\ UNCHANGED <<timeRange, grouped, calls, keyed>>
    /\ UNCHANGED <<today, summaries, invs, failed, audioVars, synthesized, narrated>>

\* A loadMessages call returns: setGroupedMessages with the groups of the
\* granularity it captured (page.tsx:197-216), setLoading(false), and the
\* summary trigger effect runs for the new groups.
loadMessages(i) ==
    /\ i \in 1..Len(loads)
    /\ grouped' = loads[i]
    /\ loading' = FALSE
    /\ loads' = RemoveAt(loads, i)
    /\ calls' = TriggerEffect(loads[i], timeRange)
    /\ UNCHANGED <<timeRange, keyed>>
    /\ UNCHANGED <<today, summaries, invs, failed, audioVars, synthesized, narrated>>

\* A scheduled fetchSummaries call runs: periodKey and the request body take
\* the bounds from its groups and the granularity from its closure
\* (page.tsx:302 and 383-386).
fetchSummaries(c) ==
    /\ c \in calls
    /\ calls' = calls \ {c}
    /\ keyed' = keyed \cup {c}
    /\ UNCHANGED <<timeRange, grouped, loading, loads>>
    /\ UNCHANGED <<today, summaries, invs, failed, audioVars, synthesized, narrated>>

\* the page has mounted showing weeks; the first loadMessages is in flight
InitViewVars ==
    /\ timeRange = "week"
    /\ grouped = "none"
    /\ loading = TRUE
    /\ loads = <<"week">>
    /\ calls = {}
    /\ keyed = {}

NextToggle ==
    \/ \E v \in Granularities : setTimeRange(v)
    \/ setSortOrder
    \/ \E i \in 1..MaxLoads : loadMessages(i)
    \/ \E c \in Granularities \X Granularities : fetchSummaries(c)

\* The page has mounted: no summaries yet; the newest period is the
\* current one.
Init ==
    /\ today = PeriodStartDay(2)
    /\ summaries = [p \in Periods |-> NoEntry]
    /\ invs = [n \in 1..MaxInvocations |-> [pc |-> "idle", i |-> 0]]
    /\ failed = {}
    /\ InitAudioVars
    /\ InitViewVars

NextSummary ==
    \/ SummaryEffect
    \/ \E n \in 1..MaxInvocations : HealthCheckSettled(n)
    \/ \E n \in 1..MaxInvocations : ResponseHeaders(n)
    \/ \E n \in 1..MaxInvocations : SummaryResponse(n)
    \/ AdvanceDay

\* the page's summaries alone
SpecSummary == Init /\ [][NextSummary]_vars

\* the tabs and the keys of the requests alone
SpecToggle == Init /\ [][NextToggle]_vars

\* no invocation of fetchSummaries is under way
Quiet == \A n \in 1..MaxInvocations : invs[n].pc \in {"idle", "done"}

\* The view changes only between invocations: the effect starts
\* fetchSummaries again only after the earlier invocation has returned.
NextSummarySerial ==
    \/ SummaryEffect /\ Quiet
    \/ \E n \in 1..MaxInvocations : HealthCheckSettled(n)
    \/ \E n \in 1..MaxInvocations : ResponseHeaders(n)
    \/ \E n \in 1..MaxInvocations : SummaryResponse(n)
    \/ AdvanceDay

SpecSummarySerial == Init /\ [][NextSummarySerial]_vars

\* fetch settles: with a response, or by rejecting
FetchSettles(n) ==
    \/ ResponseHeaders(n)
    \/ \E kind \in {"network", "timeout"} : SummaryResponseOf(n, kind, FALSE)

\* Every await that a timer bounds ends: the health check
\* (AbortSignal.timeout(5000), page.tsx:289) and the fetch of the summary
\* (abort after 60 s, page.tsx:373).  Nothing bounds the read of a
\* response's body.
SpecSummaryFair ==
    /\ SpecSummary
    /\ \A n \in 1..MaxInvocations :
        WF_vars(HealthCheckSettled(n)) /\ WF_vars(FetchSettles(n))

\* The page after fetchSummaries has filled in the summary of every period
\* (both periods are closed): every card shows its button.
InitAudio ==
    /\ today = PeriodEndDay(2) + 1
    /\ summaries = [p \in Periods |-> Entry("sum", FALSE, FALSE)]
    /\ invs = [n \in 1..MaxInvocations |-> [pc |-> "idle", i |-> 0]]
    /\ failed = {}
    /\ InitAudioVars
    /\ InitViewVars

\* the card the one-card specification plays
OneCard == {1}

\* One card with every control the page renders for it, the events of its
\* audio elements, and reloads of the page.
NextPlayer ==
    \/ \E k \in OneCard : ClickPlay(k)
    \/ \E k \in OneCard : ClickPause(k)
    \/ \E k \in OneCard : ClickResume(k)
    \/ \E k \in OneCard, sup \in BOOLEAN : TtsResponseOk(k, sup)
    \/ \E k \in OneCard, sup \in BOOLEAN : TtsFailure(k, sup)
    \/ \E h \in Handles : LoadedMetadata(h)
    \/ \E h \in Handles : Tick(h)
    \/ \E h \in Handles : TimeUpdate(h)
    \/ \E h \in Handles : Ended(h)
    \/ \E h \in Handles : AudioError(h)
    \/ \E k \in OneCard, pct \in SeekPercents : MouseDown(k, pct)
    \/ \E k \in OneCard, pct \in SeekPercents : handleMouseMove(k, pct)
    \/ MouseUp
    \/ SeekTimeout
    \/ Reload

SpecPlayer == InitAudio /\ [][NextPlayer]_vars

\* an element that is loading its data URL fires 'loadedmetadata' or 'error'
ElementLoads ==
    \E h \in Handles : LoadedMetadata(h) \/ AudioError(h)

\* The browser finishes loading an element's data URL.  The request of
\* page.tsx:640-646 carries no signal and no timer: nothing makes it end.
SpecPlayerFair == SpecPlayer /\ WF_vars(ElementLoads)

\* no element is replaced or stopped while it can still fire events
NoneDetached == detached' = <<>>

\* Both cards, without the progress bar: synthesis, the cache and the store
\* across reloads.  A card is not played again while its element loads.
NextStore ==
    \/ \E k \in Periods : ClickPlay(k) /\ NoneDetached
    \/ \E k \in Periods : ClickPause(k)
    \/ \E k \in Periods : ClickResume(k)
    \/ \E k \in Periods, sup \in BOOLEAN : TtsResponseOk(k, sup) /\ NoneDetached
    \/ \E k \in Periods, sup \in BOOLEAN : TtsFailure(k, sup)
    \/ \E h \in Handles : LoadedMetadata(h)
    \/ \E h \in Handles : Tick(h)
    \/ \E h \in Handles : TimeUpdate(h)
    \/ \E h \in Handles : Ended(h)
    \/ \E h \in Handles : AudioError(h)
    \/ Reload

SpecStore == InitAudio /\ [][NextStore]_vars

\* localStorage takes the write of page.tsx:683
StoreAccepts == store' = StoreWrite(audioCache')

\* Both cards within one load of the page, with the progress bar and with
\* handleStopAudio (which has no caller in the page) as one more control.
\* A card is not played again, nor stopped, while its element loads; it is
\* not played while the seek window of its bar is open; and the store
\* takes every write.
NextCards ==
    \/ \E k \in Periods : ClickPlay(k) /\ NoneDetached /\ isSeeking # k
    \/ \E k \in Periods : ClickPause(k)
    \/ \E k \in Periods : ClickResume(k)
    \/ \E k \in Periods, sup \in BOOLEAN : TtsResponseOk(k, sup) /\ NoneDetached
    \/ \E k \in Periods, sup \in BOOLEAN : TtsFailure(k, sup)
    \/ \E k \in Periods : handleStopAudio(k) /\ NoneDetached
    \/ \E h \in Handles : LoadedMetadata(h) /\ StoreAccepts
    \/ \E h \in Handles : Tick(h)
    \/ \E h \in Handles : TimeUpdate(h)
    \/ \E h \in Handles : Ended(h)
    \/ \E h \in Handles : AudioError(h)
    \/ \E k \in Periods, pct \in SeekPercents : MouseDown(k, pct)
    \/ \E k \in Periods, pct \in SeekPercents : handleMouseMove(k, pct)
    \/ MouseUp
    \/ SeekTimeout

SpecCards == InitAudio /\ [][NextCards]_vars

\* One card whose synthesized narration can have either length, without
\* the progress bar: synthesis, the store and replay across reloads.
NextReplay ==
    \/ \E k \in OneCard : ClickPlay(k)
    \/ \E k \in OneCard : ClickPause(k)
    \/ \E k \in OneCard : ClickResume(k)
    \/ \E k \in OneCard, sup \in BOOLEAN : TtsResponseWith(k, sup, LongPayloads)
    \/ \E k \in OneCard, sup \in BOOLEAN : TtsFailure(k, sup)
    \/ \E h \in Handles : LoadedMetadata(h)
    \/ \E h \in Handles : Tick(h)
    \/ \E h \in Handles : TimeUpdate(h)
    \/ \E h \in Handles : Ended(h)
    \/ \E h \in Handles : AudioError(h)
    \/ Reload

SpecReplay == InitAudio /\ [][NextReplay]_vars

\* The summaries together with the narration of one card: the card's text
\* is what fetchSummaries stored, and can be replaced while the page is open.
NextNarration ==
    \/ SummaryEffect
    \/ \E n \in 1..MaxInvocations : HealthCheckSettled(n)
    \/ \E n \in 1..MaxInvocations : ResponseHeaders(n)
    \/ \E n \in 1..MaxInvocations : SummaryResponse(n)
    \/ \E k \in OneCard : ClickPlay(k)
    \/ \E k \in OneCard, sup \in BOOLEAN : TtsResponseOk(k, sup) /\ NoneDetached
    \/ \E h \in Handles : LoadedMetadata(h) /\ StoreAccepts
    \/ \E h \in Handles : Tick(h)
    \/ \E h \in Handles : Ended(h)

SpecNarration == Init /\ [][NextNarration]_vars

\* One session of the page (no reload): one card with play, pause, resume
\* and handleStopAudio, synthesized narration of either length.
NextSession ==
    \/ \E k \in OneCard : ClickPlay(k)
    \/ \E k \in OneCard : ClickPause(k)
    \/ \E k \in OneCard : ClickResume(k)
    \/ \E k \in OneCard : handleStopAudio(k)
    \/ \E k \in OneCard, sup \in BOOLEAN : TtsResponseWith(k, sup, LongPayloads)
    \/ \E k \in OneCard, sup \in BOOLEAN : TtsFailure(k, sup)
    \/ \E h \in Handles : LoadedMetadata(h)
    \/ \E h \in Handles : Tick(h)
    \/ \E h \in Handles : TimeUpdate(h)
    \/ \E h \in Handles : Ended(h)
    \/ \E h \in Handles : AudioError(h)

SpecSession == InitAudio /\ [][NextSession]_vars

(***************************************************************************)
(* Properties                                                              *)
(***************************************************************************)
\* the day `today` lies within period p
ContainsToday(p) == PeriodStartDay(p) <= today /\ today <= PeriodEndDay(p)

\* localStorage holds a track for key k
HasStored(k) == store.item /\ \E e \in store.text : e.key = k

\* C1: while a fetchSummaries invocation has a request for a period
\* outstanding, no second invocation issues a request for the same period:
\* at most one summary request per period is outstanding.
C1_AtMostOneRequest ==
    \A p \in Periods : Cardinality(Outstanding(p)) <= 1

\* C2: no step issues a summary request for a period that contains the
\* current day, however many invocations of fetchSummaries run and however
\* they interleave; and the entry of such a period is never loading and
\* never holds an error text.
C2_CurrentPeriodNeverFetched ==
    /\ [][\A p \in Periods :
            ContainsToday(p) => Outstanding(p)' \subseteq Outstanding(p)]_vars
    /\ [](\A p \in Periods :
            (ContainsToday(p) /\ summaries[p].present) =>
                (~summaries[p].loading /\ summaries[p].summary \notin ErrorTexts))

\* an invocation of fetchSummaries has gone over the current period and
\* asked for the other one
C2_Witness ==
    /\ ContainsToday(2)
    /\ summaries[2].present
    /\ \E n \in 1..MaxInvocations : invs[n].pc \in {"fetch", "done"}

\* C3: when the track of key K is in the durable store and was read into
\* the cache, play on K issues no text-to-speech request and makes its
\* element from the stored data; and when that element has loaded, K is
\* playing with the duration of the stored entry.
C3_CachedPlay ==
    [][\A k \in Periods :
        (HasStored(k) /\ audioCache[k] = JSONParse(store.text)[k]) =>
            /\ ClickPlay(k) =>
                    /\ tts' = tts
                    /\ audioRefs'[k].present /\ ~audioRefs'[k].fresh
                    /\ audioRefs'[k].src = JSONParse(store.text)[k].dataUrl
            /\ \A h \in Handles :
                    (Element(h).key = k /\ ~Element(h).fresh /\ LoadedMetadata(h)) =>
                        /\ playingStates'[k].isPlaying
                        /\ ~playingStates'[k].isPaused
                        /\ playingStates'[k].duration = JSONParse(store.text)[k].duration]_vars

\* a stored track plays from the cache with no request outstanding
C3_Witness ==
    \E k \in Periods :
        /\ HasStored(k)
        /\ audioRefs[k].present /\ ~audioRefs[k].fresh /\ audioRefs[k].phase = "ready"
        /\ playingStates[k].isPlaying
        /\ playingStates[k].duration = JSONParse(store.text)[k].duration
        /\ TtsOutstanding(k) = 0

\* C4 as stated: once a text-to-speech request for K has been answered ok,
\* no later step issues another request for K.
C4_OncePerKey ==
    [][\A k \in Periods :
        k \in synthesized => TtsOutstanding(k)' <= TtsOutstanding(k)]_vars

\* C4: once the track of K is in the durable store, no later step (a
\* control, an event, a failed store write, a reload) issues a
\* text-to-speech request for K.
C4_OncePerStoredKey ==
    [][\A k \in Periods :
        HasStored(k) => TtsOutstanding(k)' <= TtsOutstanding(k)]_vars

\* K was synthesized and stored, and is played again from the cache
C4_Witness ==
    \E k \in Periods :
        /\ k \in synthesized
        /\ HasStored(k)
        /\ audioRefs[k].present /\ ~audioRefs[k].fresh
        /\ TtsOutstanding(k) = 0

\* C5: isPlaying of a key implies a track of that key in audioCache.
C5_PlayingHasTrack ==
    \A k \in Periods : playingStates[k].isPlaying => audioCache[k].present

\* the same element: nothing of it but `paused` differs, and the position
\* only where play() starts an ended element over
SameHandle(a, b) ==
    /\ [b EXCEPT !.paused = a.paused, !.currentTime = a.currentTime] = a
    /\ b.currentTime = a.currentTime \/ a.currentTime = AudioDuration(a.src)

\* C6: a pause and the play that follows it keep the key's progress and its
\* element, make no new element, and issue neither a text-to-speech nor a
\* summary request.
C6_PauseThenPlay ==
    [][\A k \in Periods :
        (ClickPause(k) \/ ClickResume(k)) =>
            /\ playingStates'[k].progress = playingStates[k].progress
            /\ audioRefs[k].present => SameHandle(audioRefs[k], audioRefs'[k])
            /\ audioRefs'[k].present = audioRefs[k].present
            /\ detached' = detached
            /\ tts' = tts
            /\ summaries' = summaries /\ invs' = invs]_vars

\* a card paused half way, about to be resumed
C6_Witness ==
    \E k \in Periods :
        /\ ButtonShown(k)
        /\ playingStates[k].isPaused /\ ~playingStates[k].isPlaying
        /\ playingStates[k].progress = 50
        /\ audioRefs[k].present /\ audioRefs[k].paused
        /\ audioRefs[k].currentTime = 1

\* C7: a 'timeupdate' of key K delivered while isSeeking is K leaves K's
\* progress at or above the position the window was opened at.
C7_NoRevertInWindow ==
    [][\A h \in Handles :
        (isSeeking = Element(h).key /\ (Tick(h) \/ TimeUpdate(h))) =>
            playingStates'[Element(h).key].progress >= sought]_vars

\* a control of card a, a response to its request, or an event of one of
\* its elements
ActsOn(a) ==
    \/ ClickPlay(a) \/ ClickPause(a) \/ ClickResume(a) \/ handleStopAudio(a)
    \/ \E pct \in SeekPercents : MouseDown(a, pct) \/ handleMouseMove(a, pct)
    \/ \E sup \in BOOLEAN : TtsResponseOk(a, sup) \/ TtsFailure(a, sup)
    \/ \E h \in Handles :
            /\ Element(h).key = a
            /\ LoadedMetadata(h) \/ Tick(h) \/ TimeUpdate(h) \/ Ended(h) \/ AudioError(h)

\* C8: a control or playback event of key A leaves the flags, progress,
\* duration and element of every other key B as they were: a step that
\* changes any of these for B is no control or event of another key.
C8_SessionsIndependent ==
    [][\A b \in Periods :
        (playingStates'[b] # playingStates[b] \/ audioRefs'[b] # audioRefs[b]) =>
            \A a \in Periods \ {b} : ~ActsOn(a)]_vars

\* card 1 was stopped while card 2 goes on playing, half way
C8_Witness ==
    /\ playingStates[1].present /\ ~playingStates[1].isPlaying
    /\ playingStates[1].duration # 0
    /\ ~audioRefs[1].present
    /\ playingStates[2].isPlaying /\ playingStates[2].progress = 50
    /\ audioRefs[2].present /\ ~audioRefs[2].paused

\* C9: a failed text-to-speech request leaves its key idle and not loading
\* and writes nothing to audioCache or to the store; a play on a key
\* without a cached track issues a request.
C9_FailureLeavesIdle ==
    [][\A k \in Periods :
        /\ (\E sup \in BOOLEAN : TtsFailure(k, sup)) =>
                /\ ~playingStates'[k].isPlaying /\ ~playingStates'[k].isPaused
                /\ ~audioLoading'[k]
                /\ audioCache' = audioCache /\ store' = store
        /\ (ClickPlay(k) /\ ~audioCache[k].present) =>
                TtsOutstanding(k)' = TtsOutstanding(k) + 1]_vars

\* the request of K failed and K was played again: a second request is out
C9_Witness ==
    \E k \in Periods :
        /\ k \notin synthesized
        /\ ~audioRefs[k].present /\ ~audioCache[k].present
        /\ playingStates[k].present
        /\ ~playingStates[k].isPlaying /\ ~playingStates[k].isPaused
        /\ ~audioLoading[k]
        /\ TtsOutstanding(k) = 0

\* C10 as stated: the store holds the entry of every key whose synthesis
\* has completed (every entry of audioCache).
C10_StoreHoldsAll ==
    \A k \in Periods :
        audioCache[k].present =>
            (HasStored(k) /\ JSONParse(store.text)[k] = audioCache[k])

\* C10: a write to the store that succeeds stores every entry of
\* audioCache, the new one and those from before; a write that fails
\* leaves the store as it was; no step removes an entry from the store.
C10_WritesMerge ==
    [][/\ \A k \in Periods : HasStored(k) => HasStored(k)'
       /\ store' # store =>
            \A k \in Periods :
                audioCache'[k].present =>
                    (HasStored(k)' /\ JSONParse(store'.text)[k] = audioCache'[k])]_vars

\* both keys were synthesized and both are in the store
C10_Witness ==
    /\ synthesized = Periods
    /\ \A k \in Periods : HasStored(k)

\* the entry localStorage holds for key k
StoredEntry(k) == CHOOSE e \in store.text : e.key = k

C12_PopulatedIsSkipped ==
    [][\A p \in Periods :
        AlreadyExists(summaries[p]) =>
            /\ Outstanding(p)' \subseteq Outstanding(p)
            /\ ~summaries'[p].loading]_vars

\* the ways a summary request fails: a status that is not ok, a network
\* failure, the 60 s abort
FailureKinds == {"status", "network", "timeout"}

\* C13: a summary request for P that fails, in whichever way, leaves P's
\* entry with a descriptive text that is not empty, cached = false and
\* loading = false.
C13_FailedShape ==
    [][\A n \in 1..MaxInvocations, kind \in FailureKinds :
        SummaryResponseOf(n, kind, FALSE) =>
            LET p == groups[invs[n].i]
            IN  /\ summaries'[p].summary \in ErrorTexts
                /\ ~summaries'[p].cached
                /\ ~summaries'[p].loading]_vars

\* C14: an entry that is loading is eventually not loading.
C14_LoadingEnds ==
    \A p \in Periods : summaries[p].loading ~> ~summaries[p].loading

\* invocation n's request for group invs[n].i ends in this step
RequestEnds(n) ==
    /\ invs[n].pc \in {"fetch", "body"}
    /\ invs'[n].pc # "body"
    /\ invs'[n] # invs[n]

\* the first group after index i that is not the current period (0 if none)
NextPastGroup(i) ==
    LET later == {j \in (i + 1)..Len(groups) : ~isCurrentPeriod(groups[j])}
    IN  IF later = {} THEN 0 ELSE CHOOSE j \in later : \A l \in later : j <= l

\* C15: when a request for P1 ends in failure, the text and cached flag of
\* every other entry are left as they were, the invocation issues the request
\* of the next period that is not the current one, and every request that
\* ends leaves its own entry resolved (not loading).
C15_PeriodsIndependent ==
    [][\A n \in 1..MaxInvocations :
        RequestEnds(n) =>
            LET i == invs[n].i
                p1 == groups[i]
                j == NextPastGroup(i)
            IN  /\ ~summaries'[p1].loading
                /\ summaries'[p1].summary # "sum" =>
                    /\ \A p2 \in Periods \ {p1} :
                        /\ summaries'[p2].summary = summaries[p2].summary
                        /\ summaries'[p2].cached = summaries[p2].cached
                    /\ IF j = 0
                       THEN invs'[n].pc = "done"
                       ELSE invs'[n] = [pc |-> "fetch", i |-> j]]_vars

\* one invocation, whose request for the first group failed, went on and
\* populated the second group
C15_Witness ==
    /\ invs[1].pc = "done"
    /\ invs[2].pc = "idle"
    /\ summaries[groups[1]].summary \in ErrorTexts
    /\ summaries[groups[2]] = Entry("sum", FALSE, FALSE)

\* C16: while isSeeking = K, a 'timeupdate' event of an element of K leaves
\* K's progress as it was.
C16_SeekingFreezesProgress ==
    [][\A h \in Handles :
        (/\ Element(h).present
         /\ isSeeking = Element(h).key
         /\ Tick(h) \/ TimeUpdate(h)) =>
            playingStates'[Element(h).key].progress
                = playingStates[Element(h).key].progress]_vars

\* the session of key k is Idle: no element is held for k, none of k's
\* elements is playing, progress is 0 and both flags are false
Idle(k) ==
    /\ ~audioRefs[k].present
    /\ \A i \in 1..Len(detached) : detached[i].key = k => detached[i].paused
    /\ playingStates[k].progress = 0
    /\ ~playingStates[k].isPlaying
    /\ ~playingStates[k].isPaused

\* C17: handleStopAudio leaves K Idle, and an Idle K stays Idle in every
\* step that is not a play on K, a synthesis request for K being outstanding
\* or not.  (handleStopAudio changes nothing in an Idle state, so every Idle
\* state is a state just after a stop.)
C17_StopIsIdle ==
    [][\A k \in Periods :
        /\ handleStopAudio(k) => Idle(k)'
        /\ (Idle(k) /\ ~ClickPlay(k)) => Idle(k)']_vars

\* C18: whenever a request for period P is outstanding, P's entry is loading.
C18_OutstandingIsLoading ==
    \A p \in Periods : Outstanding(p) # {} => summaries[p].loading

\* C19: at most one synthesis request is outstanding for a key.
C19_OneSynthesisRequest ==
    \A k \in Periods : TtsOutstanding(k) <= 1

\* C20: an entry that holds the text of a successful response and is not
\* loading keeps its text and its cached flag in every step.
C20_PopulatedIsFinal ==
    [][\A p \in Periods :
        (summaries[p].present /\ summaries[p].summary = "sum" /\ ~summaries[p].loading) =>
            /\ summaries'[p].summary = summaries[p].summary
            /\ summaries'[p].cached = summaries[p].cached]_vars

\* C21: an invocation issues the requests of its periods without waiting:
\* while its request for one group is outstanding, every later group that is
\* a past period with no populated entry has its request outstanding too.
C21_RequestsOverlap ==
    \A n \in 1..MaxInvocations :
        invs[n].pc \in {"fetch", "body"} =>
            \A j \in (invs[n].i + 1)..Len(groups) :
                (~isCurrentPeriod(groups[j]) /\ ~AlreadyExists(summaries[groups[j]]))
                    => Outstanding(groups[j]) # {}

\* C22: an 'error' event of an element of K leaves K not playing, not paused
\* and not loading, and changes neither audioCache nor the store.
C22_DecodeErrorIsIdle ==
    [][\A h \in Handles :
        AudioError(h) =>
            LET k == Element(h).key
            IN  /\ ~playingStates'[k].isPlaying
                /\ ~playingStates'[k].isPaused
                /\ ~audioLoading'[k]
                /\ audioCache' = audioCache
                /\ store' = store]_vars

\* a freshly synthesized element of K failed before its metadata loaded:
\* K is idle and nothing was cached for it
C22_Witness ==
    \E k \in Periods :
        /\ audioRefs[k].present /\ audioRefs[k].fresh
        /\ audioRefs[k].phase = "error"
        /\ ~audioCache[k].present /\ ~HasStored(k)
        /\ ~playingStates[k].isPlaying /\ ~playingStates[k].isPaused
        /\ ~audioLoading[k]

\* C23: an entry of audioCache, once present, is never changed or removed.
C23_TrackImmutable ==
    [][\A k \in Periods :
        audioCache[k].present => audioCache'[k] = audioCache[k]]_vars

\* the elements created for key k that are loading or playing
Sounding(k) ==
    {h \in Handles :
        /\ Element(h).key = k
        /\ Element(h).phase \in {"new", "ready"}
        /\ ~Element(h).paused}

\* C24: at most one element created for a key is loading or playing.
C24_ExclusiveHandle ==
    \A k \in Periods : Cardinality(Sounding(k)) <= 1

\* C25: a key that is loading eventually is not loading.
C25_LoadingEnds ==
    \A k \in Periods : audioLoading[k] ~> ~audioLoading[k]

\* C26: once a request for P has failed, no step issues another request
\* for P.
C26_NoAutoRetry ==
    [][\A p \in failed : Outstanding(p)' \subseteq Outstanding(p)]_vars

\* C27: a play that replays the cached track of K happens only when K's
\* summary text is the text the track was synthesized from.
C27_ReplaySameText ==
    [][\A k \in Periods :
        (ClickPlay(k) /\ CacheHit(k) /\ ~CanResumeInPlay(k)) =>
            narrated[k] = summaries[k].summary]_vars

\* C28: every request issued pairs bounds with the granularity they were
\* computed under.
C28_KeysMatch ==
    \A c \in keyed : c[1] = c[2]

\* C29: no key is playing and paused at once.
C29_NotPlayingAndPaused ==
    \A k \in Periods : ~(playingStates[k].isPlaying /\ playingStates[k].isPaused)

\* a key has been paused
C29_Witness ==
    \E k \in Periods :
        /\ playingStates[k].isPaused /\ ~playingStates[k].isPlaying
        /\ audioRefs[k].present /\ audioRefs[k].paused

====
